---- MODULE Spec2Model ----
(***************************************************************************)
(* bender_mq: the BenderMQ trait implemented for amqp::Channel             *)
(* (src/src/lib.rs).  The trait methods are modelled as operators over a   *)
(* channel value ch = [broker, trace, faults]:                             *)
(*   broker  the AMQP broker behind the channel (exchanges, queues,        *)
(*           bindings, queued messages);                                   *)
(*   trace   the calls the method made on its collaborators (amqp          *)
(*           Channel, bender_job serialize, stdout), in order;             *)
(*   faults  the transport outcome of each upcoming amqp call (TRUE: the   *)
(*           call fails on the connection), chosen by the environment.     *)
(* Strings and byte vectors are sequences of UTF-8 bytes; names of         *)
(* exchanges, queues and routing keys are TLA+ strings.                    *)
(***************************************************************************)
EXTENDS Integers, Sequences, FiniteSets, TLC

VARIABLES
    session,    \* "none" | "open" | "aborted": the process and its Channel
    broker,     \* the broker's state
    call,       \* the last BenderMQ method called, with its arguments
    trace,      \* the collaborator calls that method made
    ret,        \* what it returned
    succeeded,  \* history: the topology methods that have returned Ok
    again       \* history: the last call repeated a topology method of succeeded

vars == <<session, broker, call, trace, ret, succeeded, again>>

----------------------------------------------------------------------------
(* Bounds and inputs *)

\* messages the broker holds over all queues
MaxMsgs == 1

Urls == {"amqp://localhost//", "amqp://nowhere//"}
ConfigUrl == "amqp://localhost//"
Keys == {"", "a.b"}
Bodies == {<<>>, <<104, 105>>}
Jobs ==
    { [id |-> "x", json |-> <<123, 125>>, serializes |-> TRUE,  error |-> ""],
      [id |-> "y", json |-> <<>>,         serializes |-> FALSE, error |-> "bad job"] }
Tasks ==
    { [id |-> "", json |-> <<91, 93>>, serializes |-> TRUE,  error |-> ""],
      [id |-> "", json |-> <<>>,       serializes |-> FALSE, error |-> "bad task"] }
NoPayload == [id |-> "", json |-> <<>>, serializes |-> FALSE, error |-> ""]

----------------------------------------------------------------------------
(* Values *)

\* session.open_channel(1)
ChannelId == 1

Unit == [tag |-> "Unit", val |-> <<>>, err |-> "", channel |-> 0]
OkUnit == [tag |-> "Ok", val |-> <<>>, err |-> "", channel |-> 0]
Ok(text) == [tag |-> "Ok", val |-> text, err |-> "", channel |-> 0]
OkChannel(n) == [tag |-> "Ok", val |-> <<>>, err |-> "", channel |-> n]
Err(e) == [tag |-> "Err", val |-> <<>>, err |-> e, channel |-> 0]
Panic(msg) == [tag |-> "Panic", val |-> <<>>, err |-> msg, channel |-> 0]
IsErr(r) == r.tag = "Err"

\* From<&str> for Vec<u8>: the bytes of the string, copied one by one
IntoVecU8(message) == [i \in 1..Len(message) |-> message[i]]
\* String::as_str: the same bytes, borrowed
as_str(s) == s

\* BasicProperties{ content_type: Some("text"), ..Default::default() }
TextProperties == [content_type |-> "text"]

Flags(passive, durable, exclusive, auto_delete, internal, nowait) ==
    {f \in {"passive", "durable", "exclusive", "auto_delete", "internal", "nowait"} :
        \/ f = "passive" /\ passive
        \/ f = "durable" /\ durable
        \/ f = "exclusive" /\ exclusive
        \/ f = "auto_delete" /\ auto_delete
        \/ f = "internal" /\ internal
        \/ f = "nowait" /\ nowait}

PublishFlags(mandatory, immediate) ==
    {f \in {"mandatory", "immediate"} :
        (f = "mandatory" /\ mandatory) \/ (f = "immediate" /\ immediate)}

Entry(method, exchange, queue, key, kind, flags, body, ok, err) ==
    [method |-> method, exchange |-> exchange, queue |-> queue, key |-> key,
     kind |-> kind, flags |-> flags, body |-> body, ok |-> ok, err |-> err]

----------------------------------------------------------------------------
(* The amqp collaborator: a Channel on a broker *)

FreshBroker == [exchanges |-> {}, queues |-> {}, bindings |-> {}, msgs |-> <<>>]

Fault(ch) == ch.faults # <<>> /\ Head(ch.faults)
Rest(ch) == IF ch.faults = <<>> THEN <<>> ELSE Tail(ch.faults)

\* the reply to one amqp method: the broker changes only when it accepted it
Reply(ch, entry, err, b2) ==
    [ch |-> [broker |-> IF err = "" THEN b2 ELSE ch.broker,
             trace |-> Append(ch.trace, [entry EXCEPT !.ok = (err = ""), !.err = err]),
             faults |-> Rest(ch)],
     ret |-> IF err = "" THEN OkUnit ELSE Err(err)]

exchange_declare(ch, name, kind, passive, durable, auto_delete, internal, nowait) ==
    LET e == [name |-> name, kind |-> kind,
              flags |-> Flags(FALSE, durable, FALSE, auto_delete, internal, FALSE)]
        same == {x \in ch.broker.exchanges : x.name = name}
        err == IF Fault(ch) THEN "connection"
               ELSE IF name = "" THEN "ACCESS_REFUSED"
               ELSE IF passive /\ same = {} THEN "NOT_FOUND"
               ELSE IF ~passive /\ ~(same \subseteq {e}) THEN "PRECONDITION_FAILED"
               ELSE ""
        b2 == IF passive THEN ch.broker
              ELSE [ch.broker EXCEPT !.exchanges = @ \cup {e}]
    IN Reply(ch, Entry("exchange_declare", name, "", "", kind,
                       Flags(passive, durable, FALSE, auto_delete, internal, nowait),
                       <<>>, TRUE, ""), err, b2)

queue_declare(ch, queue, passive, durable, exclusive, auto_delete, nowait) ==
    LET q == [name |-> queue,
              flags |-> Flags(FALSE, durable, exclusive, auto_delete, FALSE, FALSE)]
        same == {x \in ch.broker.queues : x.name = queue}
        err == IF Fault(ch) THEN "connection"
               ELSE IF passive /\ same = {} THEN "NOT_FOUND"
               ELSE IF ~passive /\ ~(same \subseteq {q}) THEN "PRECONDITION_FAILED"
               ELSE ""
        b2 == IF passive \/ same # {} THEN ch.broker
              ELSE [ch.broker EXCEPT !.queues = @ \cup {q},
                                     !.msgs = (queue :> <<>>) @@ @]
    IN Reply(ch, Entry("queue_declare", "", queue, "", "",
                       Flags(passive, durable, exclusive, auto_delete, FALSE, nowait),
                       <<>>, TRUE, ""), err, b2)

queue_bind(ch, queue, exchange, routing_key, nowait) ==
    LET err == IF Fault(ch) THEN "connection"
               ELSE IF \A q \in ch.broker.queues : q.name # queue THEN "NOT_FOUND"
               ELSE IF \A x \in ch.broker.exchanges : x.name # exchange THEN "NOT_FOUND"
               ELSE ""
        b2 == [ch.broker EXCEPT !.bindings =
                  @ \cup {[queue |-> queue, exchange |-> exchange, key |-> routing_key]}]
    IN Reply(ch, Entry("queue_bind", exchange, queue, routing_key, "",
                       Flags(FALSE, FALSE, FALSE, FALSE, FALSE, nowait),
                       <<>>, TRUE, ""), err, b2)

\* binding keys of this topology are "#" or literal; "*" is not used
Matches(kind, pattern, routing_key) ==
    IF kind = "topic" THEN pattern = "#" \/ pattern = routing_key
    ELSE pattern = routing_key

\* the queues the broker routes a message to: the default exchange ""
\* delivers to the queue named by the routing key, a declared exchange to
\* the queues whose binding matches, an undeclared exchange to none
Route(b, exchange, routing_key) ==
    IF exchange = ""
    THEN {q.name : q \in {x \in b.queues : x.name = routing_key}}
    ELSE {bd.queue : bd \in {x \in b.bindings :
              /\ x.exchange = exchange
              /\ \E e \in b.exchanges :
                    e.name = exchange /\ Matches(e.kind, x.key, routing_key)}}

basic_publish(ch, exchange, routing_key, mandatory, immediate, properties, body) ==
    LET err == IF Fault(ch) THEN "connection" ELSE ""
        m == [body |-> body, routing_key |-> routing_key,
              content_type |-> properties.content_type]
        to == Route(ch.broker, exchange, routing_key)
        b2 == [ch.broker EXCEPT !.msgs =
                  [q \in DOMAIN @ |-> IF q \in to THEN Append(@[q], m) ELSE @[q]]]
    IN Reply(ch, Entry("basic_publish", exchange, "", routing_key,
                       properties.content_type, PublishFlags(mandatory, immediate),
                       body, TRUE, ""), err, b2)

\* println!: a line on stdout
println(ch, line) ==
    [ch EXCEPT !.trace =
        Append(@, Entry("println", "", "", "", "", {}, <<>>, TRUE, line))]

\* bender_job's serialize(): the payload's JSON text, or its error
serialize(ch, payload) ==
    [ch |-> [ch EXCEPT !.trace =
                Append(@, Entry("serialize", "", "", payload.id, "", {}, <<>>,
                                payload.serializes, payload.error))],
     ret |-> IF payload.serializes THEN Ok(payload.json) ELSE Err(payload.error)]

----------------------------------------------------------------------------
(* Connection bootstrap *)

\* Session::open_url(..).unwrap_or_else(|_| panic!(..)), then
\* session.open_channel(1)?
open_channel(url, session_opens, channel_opens) ==
    IF ~session_opens THEN Panic("Error while opening a connection")
    ELSE IF ~channel_opens THEN Err("channel")
    ELSE OkChannel(ChannelId)

open_default_channel(session_opens, channel_opens) ==
    IF ~session_opens THEN Panic("Error while opening a connection")
    ELSE IF ~channel_opens THEN Err("channel")
    ELSE OkChannel(ChannelId)

----------------------------------------------------------------------------
(* Topology declaration *)

\* variant: the passive and durable arguments in each other's place
declare_topic_exchange_passive(ch) ==
    LET d == exchange_declare(ch, "info-topic", "topic",
                              TRUE, FALSE, FALSE, FALSE, FALSE)
    IN IF IsErr(d.ret) THEN d ELSE [ch |-> d.ch, ret |-> OkUnit]

declare_topic_exchange(ch) ==
    LET d == exchange_declare(ch, "info-topic", "topic",
                              FALSE, TRUE, FALSE, FALSE, FALSE)
    IN IF IsErr(d.ret) THEN d ELSE [ch |-> d.ch, ret |-> OkUnit]

create_info_queue(ch) ==
    LET d == queue_declare(ch, "info", FALSE, TRUE, FALSE, FALSE, FALSE)
    IN IF IsErr(d.ret) THEN d
       ELSE LET b == queue_bind(d.ch, "info", "info-topic", "#", FALSE)
            IN IF IsErr(b.ret) THEN b ELSE [ch |-> b.ch, ret |-> OkUnit]

declare_job_exchange(ch) ==
    LET d == exchange_declare(ch, "job", "direct",
                              FALSE, TRUE, FALSE, FALSE, FALSE)
    IN IF IsErr(d.ret) THEN d ELSE [ch |-> d.ch, ret |-> OkUnit]

\* variant: the job queue bound like the info queue
create_job_queue_bound(ch) ==
    LET d == queue_declare(ch, "job", FALSE, TRUE, FALSE, FALSE, FALSE)
    IN IF IsErr(d.ret) THEN d
       ELSE LET b == queue_bind(d.ch, "job", "job", "#", FALSE)
            IN IF IsErr(b.ret) THEN b ELSE [ch |-> b.ch, ret |-> OkUnit]

create_job_queue(ch) ==
    LET d == queue_declare(ch, "job", FALSE, TRUE, FALSE, FALSE, FALSE)
    IN IF IsErr(d.ret) THEN d ELSE [ch |-> d.ch, ret |-> OkUnit]

declare_work_exchange(ch) ==
    LET d == exchange_declare(ch, "work", "direct",
                              FALSE, TRUE, FALSE, FALSE, FALSE)
    IN IF IsErr(d.ret) THEN d ELSE [ch |-> d.ch, ret |-> OkUnit]

declare_worker_exchange(ch) ==
    LET d == exchange_declare(ch, "worker-topic", "topic",
                              FALSE, TRUE, FALSE, FALSE, FALSE)
    IN IF IsErr(d.ret) THEN d ELSE [ch |-> d.ch, ret |-> OkUnit]

create_work_queue(ch) ==
    LET d == queue_declare(ch, "work", FALSE, TRUE, FALSE, FALSE, FALSE)
    IN IF IsErr(d.ret) THEN d ELSE [ch |-> d.ch, ret |-> OkUnit]

\* variant: the result of queue_declare dropped instead of propagated
create_worker_queue_unchecked(ch) ==
    LET d == queue_declare(ch, "worker", FALSE, TRUE, FALSE, FALSE, FALSE)
        b == queue_bind(d.ch, "worker", "worker-topic", "#", FALSE)
    IN IF IsErr(b.ret) THEN b ELSE [ch |-> b.ch, ret |-> OkUnit]

create_worker_queue(ch) ==
    LET d == queue_declare(ch, "worker", FALSE, TRUE, FALSE, FALSE, FALSE)
    IN IF IsErr(d.ret) THEN d
       ELSE LET b == queue_bind(d.ch, "worker", "worker-topic", "#", FALSE)
            IN IF IsErr(b.ret) THEN b ELSE [ch |-> b.ch, ret |-> OkUnit]

----------------------------------------------------------------------------
(* Publish operations *)

\* variant: a failed publish tried once more
post_to_info_retry(ch, routing_key, message) ==
    LET p == basic_publish(ch, "info-topic", routing_key, TRUE, FALSE,
                           TextProperties, IntoVecU8(message))
    IN [ch |-> IF IsErr(p.ret)
               THEN basic_publish(p.ch, "info-topic", routing_key, TRUE, FALSE,
                                  TextProperties, IntoVecU8(message)).ch
               ELSE p.ch,
        ret |-> Unit]

post_to_info(ch, routing_key, message) ==
    LET p == basic_publish(ch, "info-topic", routing_key, TRUE, FALSE,
                           TextProperties, IntoVecU8(message))
    IN [ch |-> IF IsErr(p.ret)
               THEN println(p.ch, "Error: Couldn't publish message to info-topic exchange")
               ELSE p.ch,
        ret |-> Unit]

\* variant: published to the exchange named "job"
post_to_job_exchange(ch, message) ==
    LET p == basic_publish(ch, "job", "job", TRUE, FALSE,
                           TextProperties, IntoVecU8(message))
    IN [ch |-> IF IsErr(p.ret)
               THEN println(p.ch, "Error: Couldn't publish message to job exchange")
               ELSE p.ch,
        ret |-> Unit]

post_to_job(ch, message) ==
    LET p == basic_publish(ch, "", "job", TRUE, FALSE,
                           TextProperties, IntoVecU8(message))
    IN [ch |-> IF IsErr(p.ret)
               THEN println(p.ch, "Error: Couldn't publish message to job exchange")
               ELSE p.ch,
        ret |-> Unit]

post_to_work(ch, message) ==
    LET p == basic_publish(ch, "", "work", TRUE, FALSE,
                           TextProperties, IntoVecU8(message))
    IN [ch |-> IF IsErr(p.ret)
               THEN println(p.ch, "Error: Couldn't publish message to info-topic exchange")
               ELSE p.ch,
        ret |-> Unit]

\* variant: the exchange of post_to_info left in place
worker_post_info(ch, routing_key, message) ==
    LET p == basic_publish(ch, "info-topic", routing_key, TRUE, FALSE,
                           TextProperties, IntoVecU8(message))
    IN [ch |-> IF IsErr(p.ret)
               THEN println(p.ch, "Error: Couldn't publish message to info-topic exchange")
               ELSE p.ch,
        ret |-> Unit]

worker_post(ch, routing_key, message) ==
    LET p == basic_publish(ch, "worker-topic", routing_key, TRUE, FALSE,
                           TextProperties, IntoVecU8(message))
    IN [ch |-> IF IsErr(p.ret)
               THEN println(p.ch, "Error: Couldn't publish message to info-topic exchange")
               ELSE p.ch,
        ret |-> Unit]

----------------------------------------------------------------------------
(* Payload adaptation *)

\* variant: an empty message posted when serialization fails
post_job_always(ch, job) ==
    LET s == serialize(ch, job)
    IN IF IsErr(s.ret)
       THEN [ch |-> post_to_job(s.ch, <<>>).ch, ret |-> Err(s.ret.err)]
       ELSE [ch |-> post_to_job(s.ch, as_str(s.ret.val)).ch, ret |-> Ok(s.ret.val)]

post_job(ch, job) ==
    LET s == serialize(ch, job)
    IN IF IsErr(s.ret) THEN [ch |-> s.ch, ret |-> Err(s.ret.err)]
       ELSE [ch |-> post_to_job(s.ch, as_str(s.ret.val)).ch, ret |-> Ok(s.ret.val)]

post_job_info(ch, job) ==
    LET s == serialize(ch, job)
    IN IF IsErr(s.ret) THEN [ch |-> s.ch, ret |-> Err(s.ret.err)]
       ELSE [ch |-> post_to_info(s.ch, job.id, as_str(s.ret.val)).ch,
             ret |-> Ok(s.ret.val)]

\* variant: the task serialized again for the return value
post_task_twice(ch, task) ==
    LET s == serialize(ch, task)
    IN IF IsErr(s.ret) THEN [ch |-> s.ch, ret |-> Err(s.ret.err)]
       ELSE LET p == post_to_work(s.ch, as_str(s.ret.val))
                t == serialize(p.ch, task)
            IN [ch |-> t.ch, ret |-> t.ret]

post_task(ch, task) ==
    LET s == serialize(ch, task)
    IN IF IsErr(s.ret) THEN [ch |-> s.ch, ret |-> Err(s.ret.err)]
       ELSE [ch |-> post_to_work(s.ch, as_str(s.ret.val)).ch, ret |-> Ok(s.ret.val)]

post_task_info(ch, task, routing_key) ==
    LET s == serialize(ch, task)
    IN IF IsErr(s.ret) THEN [ch |-> s.ch, ret |-> Err(s.ret.err)]
       ELSE [ch |-> post_to_info(s.ch, routing_key, as_str(s.ret.val)).ch,
             ret |-> Ok(s.ret.val)]

----------------------------------------------------------------------------
(* The state machine: one action per trait method *)

TopologyOps ==
    {"declare_topic_exchange", "declare_job_exchange", "declare_work_exchange",
     "declare_worker_exchange", "create_info_queue", "create_job_queue",
     "create_work_queue", "create_worker_queue"}

Held(b) == LET RECURSIVE Sum(_)
               Sum(S) == IF S = {} THEN 0
                         ELSE LET q == CHOOSE x \in S : TRUE
                              IN Len(b.msgs[q]) + Sum(S \ {q})
           IN Sum(DOMAIN b.msgs)

\* the channel as a method finds it: the broker as it is, an empty trace,
\* and the transport outcomes the environment has chosen
Start(faults) == [broker |-> broker, trace |-> <<>>, faults |-> faults]

Called(op, key, body, payload) ==
    [op |-> op, key |-> key, body |-> body, payload |-> payload]

Do(c, r) ==
    /\ session = "open"
    /\ call' = c
    /\ broker' = r.ch.broker
    /\ trace' = r.ch.trace
    /\ ret' = r.ret
    /\ succeeded' = IF c.op \in TopologyOps /\ r.ret.tag = "Ok"
                    THEN succeeded \cup {c.op} ELSE succeeded
    /\ again' = (c.op \in succeeded)
    /\ UNCHANGED session

Opened(c, r) ==
    /\ session = "none"
    /\ call' = c
    /\ ret' = r
    /\ session' = CASE r.tag = "Ok" -> "open"
                    [] r.tag = "Panic" -> "aborted"
                    [] OTHER -> "none"
    /\ trace' = <<>>
    /\ again' = FALSE
    /\ UNCHANGED <<broker, succeeded>>

Init ==
    /\ session = "none"
    /\ broker = FreshBroker
    /\ call = Called("new", "", <<>>, NoPayload)
    /\ trace = <<>>
    /\ ret = Unit
    /\ succeeded = {}
    /\ again = FALSE

OpenChannel ==
    \E url \in Urls, s \in BOOLEAN, c \in BOOLEAN :
        Opened(Called("open_channel", url, <<>>, NoPayload), open_channel(url, s, c))

OpenDefaultChannel ==
    \E s \in BOOLEAN, c \in BOOLEAN :
        Opened(Called("open_default_channel", ConfigUrl, <<>>, NoPayload),
               open_default_channel(s, c))

DeclareTopicExchange ==
    \E f \in BOOLEAN :
        Do(Called("declare_topic_exchange", "", <<>>, NoPayload),
           declare_topic_exchange(Start(<<f>>)))

CreateInfoQueue ==
    \E f \in BOOLEAN, g \in BOOLEAN :
        Do(Called("create_info_queue", "", <<>>, NoPayload),
           create_info_queue(Start(<<f, g>>)))

DeclareJobExchange ==
    \E f \in BOOLEAN :
        Do(Called("declare_job_exchange", "", <<>>, NoPayload),
           declare_job_exchange(Start(<<f>>)))

CreateJobQueue ==
    \E f \in BOOLEAN :
        Do(Called("create_job_queue", "", <<>>, NoPayload),
           create_job_queue(Start(<<f>>)))

DeclareWorkExchange ==
    \E f \in BOOLEAN :
        Do(Called("declare_work_exchange", "", <<>>, NoPayload),
           declare_work_exchange(Start(<<f>>)))

DeclareWorkerExchange ==
    \E f \in BOOLEAN :
        Do(Called("declare_worker_exchange", "", <<>>, NoPayload),
           declare_worker_exchange(Start(<<f>>)))

CreateWorkQueue ==
    \E f \in BOOLEAN :
        Do(Called("create_work_queue", "", <<>>, NoPayload),
           create_work_queue(Start(<<f>>)))

CreateWorkerQueue ==
    \E f \in BOOLEAN, g \in BOOLEAN :
        Do(Called("create_worker_queue", "", <<>>, NoPayload),
           create_worker_queue(Start(<<f, g>>)))

PostToInfo ==
    /\ Held(broker) < MaxMsgs
    /\ \E key \in Keys, body \in Bodies, f \in BOOLEAN :
          Do(Called("post_to_info", key, body, NoPayload),
             post_to_info(Start(<<f>>), key, body))

PostToJob ==
    /\ Held(broker) < MaxMsgs
    /\ \E body \in Bodies, f \in BOOLEAN :
          Do(Called("post_to_job", "", body, NoPayload),
             post_to_job(Start(<<f>>), body))

PostToWork ==
    /\ Held(broker) < MaxMsgs
    /\ \E body \in Bodies, f \in BOOLEAN :
          Do(Called("post_to_work", "", body, NoPayload),
             post_to_work(Start(<<f>>), body))

WorkerPost ==
    /\ Held(broker) < MaxMsgs
    /\ \E key \in Keys, body \in Bodies, f \in BOOLEAN :
          Do(Called("worker_post", key, body, NoPayload),
             worker_post(Start(<<f>>), key, body))

PostJob ==
    /\ Held(broker) < MaxMsgs
    /\ \E job \in Jobs, f \in BOOLEAN :
          Do(Called("post_job", "", <<>>, job), post_job(Start(<<f>>), job))

PostJobInfo ==
    /\ Held(broker) < MaxMsgs
    /\ \E job \in Jobs, f \in BOOLEAN :
          Do(Called("post_job_info", "", <<>>, job), post_job_info(Start(<<f>>), job))

PostTask ==
    /\ Held(broker) < MaxMsgs
    /\ \E task \in Tasks, f \in BOOLEAN :
          Do(Called("post_task", "", <<>>, task), post_task(Start(<<f>>), task))

PostTaskInfo ==
    /\ Held(broker) < MaxMsgs
    /\ \E task \in Tasks, key \in Keys, f \in BOOLEAN :
          Do(Called("post_task_info", key, <<>>, task),
             post_task_info(Start(<<f>>), task, key))

Next ==
    \/ OpenChannel
    \/ OpenDefaultChannel
    \/ DeclareTopicExchange
    \/ CreateInfoQueue
    \/ DeclareJobExchange
    \/ CreateJobQueue
    \/ DeclareWorkExchange
    \/ DeclareWorkerExchange
    \/ CreateWorkQueue
    \/ CreateWorkerQueue
    \/ PostToInfo
    \/ PostToJob
    \/ PostToWork
    \/ WorkerPost
    \/ PostJob
    \/ PostJobInfo
    \/ PostTask
    \/ PostTaskInfo

Spec == Init /\ [][Next]_vars

----------------------------------------------------------------------------
(* Properties *)

RawPostOps == {"post_to_info", "post_to_job", "post_to_work", "worker_post"}
PayloadOps == {"post_job", "post_job_info", "post_task", "post_task_info"}

Calls(t, method) == SelectSeq(t, LAMBDA e : e.method = method)
Count(t, method) == Len(Calls(t, method))
NoFault(t) == \A i \in DOMAIN t : t[i].err # "connection"
Declared(b, exchange) == \E e \in b.exchanges : e.name = exchange
Exists(b, queue) == \E q \in b.queues : q.name = queue
Topology(b) == <<b.exchanges, b.queues, b.bindings>>
InfoBinding == [queue |-> "info", exchange |-> "info-topic", key |-> "#"]
WorkerBinding == [queue |-> "worker", exchange |-> "worker-topic", key |-> "#"]

\* C1: post_to_job publishes to exchange "job" with routing key "job", and
\* post_to_work to exchange "work" with routing key "work", whatever the body.
C1_DirectExchangeAndKey ==
    /\ call.op = "post_to_job" =>
          /\ Count(trace, "basic_publish") = 1
          /\ Calls(trace, "basic_publish")[1].exchange = "job"
          /\ Calls(trace, "basic_publish")[1].key = "job"
    /\ call.op = "post_to_work" =>
          /\ Count(trace, "basic_publish") = 1
          /\ Calls(trace, "basic_publish")[1].exchange = "work"
          /\ Calls(trace, "basic_publish")[1].key = "work"

\* C2: open_channel returns Ok with an open channel numbered 1, or returns
\* Err to its caller; a session that cannot be opened gives Err, never an
\* abort of the process.
C2_OpenChannelReturnsResult ==
    call.op = "open_channel" =>
        \/ ret.tag = "Ok" /\ ret.channel = ChannelId /\ session = "open"
        \/ ret.tag = "Err" /\ session = "none"

\* C3: when serialization fails, post_job, post_job_info, post_task and
\* post_task_info return that error unchanged, call basic_publish zero times
\* and leave the broker as it was.
C3_SerializationErrorSkipsPublish ==
    [][(call'.op \in PayloadOps /\ ~call'.payload.serializes) =>
          /\ ret' = Err(call'.payload.error)
          /\ Count(trace', "basic_publish") = 0
          /\ broker' = broker]_vars

C3_Witness ==
    /\ call.op = "post_job"
    /\ ~call.payload.serializes
    /\ ret = Err("bad job")
    /\ Exists(broker, "job")

\* C4: a failed publish is never propagated: the four post_to_* / worker_post
\* methods return normally, the four payload methods return Ok(serialized
\* text) when serialization succeeded, and basic_publish is called exactly
\* once in either case, failed or not.
C4_PublishFailureSwallowed ==
    /\ call.op \in RawPostOps =>
          ret = Unit /\ Count(trace, "basic_publish") = 1
    /\ (call.op \in PayloadOps /\ call.payload.serializes) =>
          ret = Ok(call.payload.json) /\ Count(trace, "basic_publish") = 1

C4_Witness ==
    /\ call.op = "post_job_info"
    /\ call.payload.serializes
    /\ Count(trace, "basic_publish") = 1
    /\ ~Calls(trace, "basic_publish")[1].ok
    /\ ret.tag = "Ok"

\* C5: once declare_job_exchange and create_job_queue have succeeded, with
\* no binding declared for the queue, a post_to_job(b) whose publish is
\* accepted adds exactly one message to queue "job", with body b: on a
\* fresh broker the queue then holds exactly that one message.
C5_JobHandoff ==
    [][(/\ call'.op = "post_to_job"
        /\ {"declare_job_exchange", "create_job_queue"} \subseteq succeeded
        /\ \A bd \in broker.bindings : bd.queue # "job"
        /\ \A i \in DOMAIN trace' :
              trace'[i].method = "basic_publish" => trace'[i].ok) =>
          /\ "job" \in DOMAIN broker.msgs
          /\ broker'.msgs["job"] =
                Append(broker.msgs["job"],
                       [body |-> call'.body, routing_key |-> "job",
                        content_type |-> "text"])]_vars

C5_Witness ==
    /\ call.op = "post_to_job"
    /\ call.body = <<104, 105>>
    /\ {"declare_job_exchange", "create_job_queue"} \subseteq succeeded
    /\ "job" \in DOMAIN broker.msgs
    /\ Len(broker.msgs["job"]) = 1
    /\ broker.msgs["job"][1].body = <<104, 105>>

\* C6: without a transport fault, every declare_* and create_* call succeeds
\* (create_info_queue and create_worker_queue once their exchange is
\* declared), and a call of a method that has already succeeded succeeds
\* again and leaves exchanges, queues and bindings as they were.
C6_TopologyIdempotent ==
    [][(/\ call'.op \in TopologyOps
        /\ NoFault(trace')
        /\ call'.op = "create_info_queue" => "declare_topic_exchange" \in succeeded
        /\ call'.op = "create_worker_queue" => "declare_worker_exchange" \in succeeded) =>
          /\ ret'.tag = "Ok"
          /\ call'.op \in succeeded => Topology(broker') = Topology(broker)]_vars

C6_Witness ==
    /\ succeeded = TopologyOps
    /\ again
    /\ call.op = "create_worker_queue"
    /\ ret.tag = "Ok"
    /\ broker.bindings = {InfoBinding, WorkerBinding}

\* C7: post_to_info(key, body) publishes to "info-topic" and
\* worker_post(key, body) to "worker-topic", with the caller's key as the
\* routing key and the caller's body as the body.
C7_TopicExchangeAndKey ==
    /\ call.op = "post_to_info" =>
          /\ Count(trace, "basic_publish") = 1
          /\ Calls(trace, "basic_publish")[1].exchange = "info-topic"
          /\ Calls(trace, "basic_publish")[1].key = call.key
          /\ Calls(trace, "basic_publish")[1].body = call.body
    /\ call.op = "worker_post" =>
          /\ Count(trace, "basic_publish") = 1
          /\ Calls(trace, "basic_publish")[1].exchange = "worker-topic"
          /\ Calls(trace, "basic_publish")[1].key = call.key
          /\ Calls(trace, "basic_publish")[1].body = call.body

C7_Witness ==
    /\ call.op = "worker_post"
    /\ call.key = "a.b"
    /\ call.body = <<104, 105>>
    /\ Calls(trace, "basic_publish")[1].ok

\* C8: when serialization succeeds, each payload method serializes exactly
\* once, publishes exactly once, and returns in Ok the very bytes it handed
\* to that publish.
C8_ReturnedTextIsWireBody ==
    (call.op \in PayloadOps /\ call.payload.serializes) =>
        /\ Count(trace, "serialize") = 1
        /\ Count(trace, "basic_publish") = 1
        /\ ret.tag = "Ok"
        /\ ret.val = Calls(trace, "basic_publish")[1].body

C8_Witness ==
    /\ call.op = "post_task"
    /\ call.payload.serializes
    /\ ret.val = <<91, 93>>
    /\ Calls(trace, "basic_publish")[1].ok

C10_BindAfterDeclare ==
    \A m \in {<<"create_info_queue", "info", InfoBinding>>,
              <<"create_worker_queue", "worker", WorkerBinding>>} :
        call.op = m[1] =>
            /\ Len(trace) \in {1, 2}
            /\ trace[1].method = "queue_declare" /\ trace[1].queue = m[2]
            /\ ~trace[1].ok => Len(trace) = 1 /\ ret = Err(trace[1].err)
            /\ trace[1].ok =>
                  /\ Len(trace) = 2
                  /\ trace[2].method = "queue_bind"
                  /\ Exists(broker, m[2])
                  /\ ~trace[2].ok => ret = Err(trace[2].err)
            /\ ret.tag = "Ok" => Exists(broker, m[2]) /\ m[3] \in broker.bindings

C10_Witness ==
    /\ call.op = "create_info_queue"
    /\ Len(trace) = 2
    /\ trace[2].err = "NOT_FOUND"
    /\ ret = Err("NOT_FOUND")
    /\ Exists(broker, "info")
    /\ ~Declared(broker, "info-topic")

====
